---- MODULE Spec2Model ----
(***************************************************************************)
(* A model of the lektor-i18n plugin (lektor_i18n.py): the translation     *)
(* memory, the template translator, the extraction pass (process_node)     *)
(* and the rewrite pass (translate_contents / translate_field /            *)
(* translate_flowblock).                                                   *)
(*                                                                         *)
(* Text is modelled as what it is: a Python str is a sequence of           *)
(* one-character strings, so that strip, split, replace and the regular    *)
(* expressions of the source are computed, not assumed.                    *)
(***************************************************************************)
EXTENDS Integers, Sequences, FiniteSets, TLC

\* ------------------------------------------------------------------------
\* Python str primitives
\* ------------------------------------------------------------------------

NL == "\n"

\* the characters Python's str.strip() and the regex class \s remove
\* (restricted to those the model's alphabet can contain)
WS == {" ", NL, "\t", "\r"}

\* str.strip("\r\n") of lektor_i18n.py lines 325 and 476
CRLF == {NL, "\r"}

\* number of consecutive characters of s, from index i on, that are in cs
RECURSIVE Span(_, _, _)
Span(s, i, cs) ==
    IF i <= Len(s) /\ s[i] \in cs THEN 1 + Span(s, i + 1, cs) ELSE 0

\* number of consecutive characters of s, going left from index i, in cs
RECURSIVE SpanBack(_, _, _)
SpanBack(s, i, cs) ==
    IF i >= 1 /\ s[i] \in cs THEN 1 + SpanBack(s, i - 1, cs) ELSE 0

\* s[i:] in Python's 0-based slices is Drop(s, i)
Drop(s, n) == SubSeq(s, n + 1, Len(s))

\* str.lstrip(cs), str.rstrip(cs), str.strip(cs)
lstrip(s, cs) == Drop(s, Span(s, 1, cs))

rstrip(s, cs) == SubSeq(s, 1, Len(s) - SpanBack(s, Len(s), cs))

strip(s, cs) == rstrip(lstrip(s, cs), cs)

\* whether sub occurs in s at index i (1-based)
IsAt(s, sub, i) ==
    /\ i + Len(sub) - 1 <= Len(s)
    /\ SubSeq(s, i, i + Len(sub) - 1) = sub

\* str.find(sub) from index i on, 1-based; 0 when sub does not occur
RECURSIVE FindFrom(_, _, _)
FindFrom(s, sub, i) ==
    IF i + Len(sub) - 1 > Len(s) THEN 0
    ELSE IF IsAt(s, sub, i) THEN i
    ELSE FindFrom(s, sub, i + 1)

\* str.replace(old, new, count); count = -1 replaces every occurrence.
\* An empty old matches before every character and at the end.
RECURSIVE replace(_, _, _, _)
replace(s, old, new, count) ==
    IF count = 0 THEN s
    ELSE IF old = <<>>
    THEN IF s = <<>> THEN new
         ELSE new \o <<Head(s)>> \o replace(Tail(s), old, new, count - 1)
    ELSE LET i == FindFrom(s, old, 1)
         IN IF i = 0 THEN s
            ELSE SubSeq(s, 1, i - 1) \o new
                 \o replace(Drop(s, i + Len(old) - 1), old, new, count - 1)

\* str.split(sep) for a one-character separator
RECURSIVE split(_, _)
split(s, sep) ==
    LET i == FindFrom(s, <<sep>>, 1)
    IN IF i = 0 THEN <<s>>
       ELSE <<SubSeq(s, 1, i - 1)>> \o split(Drop(s, i), sep)

\* str.split(sep, 1): at most one split
split1(s, sep) ==
    LET i == FindFrom(s, <<sep>>, 1)
    IN IF i = 0 THEN <<s>> ELSE <<SubSeq(s, 1, i - 1), Drop(s, i)>>

\* str.splitlines(True): the lines with their line ends
RECURSIVE splitlines_keep(_)
splitlines_keep(s) ==
    IF s = <<>> THEN <<>>
    ELSE LET i == FindFrom(s, <<NL>>, 1)
         IN IF i = 0 THEN <<s>>
            ELSE <<SubSeq(s, 1, i)>> \o splitlines_keep(Drop(s, i))

\* str.splitlines(): the lines without their line ends
RECURSIVE splitlines(_)
splitlines(s) ==
    IF s = <<>> THEN <<>>
    ELSE LET i == FindFrom(s, <<NL>>, 1)
         IN IF i = 0 THEN <<s>>
            ELSE <<SubSeq(s, 1, i - 1)>> \o splitlines(Drop(s, i))

\* sep.join(parts)
RECURSIVE join(_, _)
join(parts, sep) ==
    IF parts = <<>> THEN <<>>
    ELSE IF Len(parts) = 1 THEN parts[1]
    ELSE parts[1] \o sep \o join(Tail(parts), sep)

\* "".join(parts)
concat(parts) == join(parts, <<>>)

\* ------------------------------------------------------------------------
\* The regular expressions of lektor_i18n.py
\* ------------------------------------------------------------------------

\* Length of the match of HL_PATTERN at the start of s, 0 when it does not
\* match: ^\s*#+\s* is tried first, then ^\s*[*-]\s+ .
HL_PATTERN(s) ==
    LET lead == Span(s, 1, WS)
        hashes == Span(s, lead + 1, {"#"})
        bullet == IF lead < Len(s) /\ s[lead + 1] \in {"*", "-"} THEN 1 ELSE 0
        gap == Span(s, lead + 2, WS)
    IN IF hashes > 0
       THEN lead + hashes + Span(s, lead + hashes + 1, WS)
       ELSE IF bullet = 1 /\ gap > 0 THEN lead + 1 + gap
       ELSE 0

\* re.sub(HL_PATTERN, "", s): the pattern is anchored, so at most the
\* match at the start is removed
hl_sub(s) == Drop(s, HL_PATTERN(s))

\* End index of the match of "\n(?:\s*\n){1,}" starting at index i, 0 when
\* there is none: s[i] is a newline and the greedy match ends at the last
\* newline of the whitespace run that follows.
ParSepEnd(s, i) ==
    IF i > Len(s) \/ s[i] # NL THEN 0
    ELSE LET run == Span(s, i + 1, WS)
             tail == SpanBack(s, i + run, WS \ {NL})
         IN IF run - tail >= 1 /\ tail <= run THEN i + run - tail ELSE 0

\* split_paragraphs(document) for a str
RECURSIVE split_par_from(_, _)
split_par_from(s, i) ==
    IF i > Len(s) THEN <<s>>
    ELSE LET e == ParSepEnd(s, i)
         IN IF e = 0 THEN split_par_from(s, i + 1)
            ELSE <<SubSeq(s, 1, i - 1)>> \o split_par_from(Drop(s, e), 1)

split_paragraphs(document) == split_par_from(document, 1)

\* ------------------------------------------------------------------------
\* Python dict (insertion-ordered): a sequence of <<key, value>> pairs with
\* distinct keys
\* ------------------------------------------------------------------------

RECURSIVE DictIndex(_, _, _)
DictIndex(d, k, i) ==
    IF i > Len(d) THEN 0
    ELSE IF d[i][1] = k THEN i
    ELSE DictIndex(d, k, i + 1)

\* k in d
DictHas(d, k) == DictIndex(d, k, 1) # 0

\* d[k], for a key of d
DictGet(d, k) == d[DictIndex(d, k, 1)][2]

\* d[k] = v: a present key keeps its place, a new one is appended
DictSet(d, k, v) ==
    LET i == DictIndex(d, k, 1)
    IN IF i = 0 THEN Append(d, <<k, v>>)
       ELSE [j \in 1..Len(d) |-> IF j = i THEN <<k, v>> ELSE d[j]]

\* dict(pairs)
RECURSIVE dict(_)
dict(pairs) ==
    IF pairs = <<>> THEN <<>>
    ELSE LET n == Len(pairs)
         IN DictSet(dict(SubSeq(pairs, 1, n - 1)), pairs[n][1], pairs[n][2])

\* ------------------------------------------------------------------------
\* The Lektor library functions the plugin calls (lektor.metaformat and
\* lektor.types.flow), by what they do
\* ------------------------------------------------------------------------

\* lektor.metaformat._line_is_dashes
line_is_dashes(line) ==
    LET l == strip(line, WS)
    IN Len(l) >= 3 /\ \A i \in 1..Len(l) : l[i] = "-"

\* lektor.metaformat._process_buf: a line of dashes loses its escaping dash,
\* the last line loses its line end
process_buf(buf) ==
    LET un == [i \in 1..Len(buf) |->
                 IF line_is_dashes(buf[i]) THEN Tail(buf[i]) ELSE buf[i]]
        n == Len(buf)
    IN [i \in 1..n |->
          IF i = n /\ un[i] # <<>> /\ un[i][Len(un[i])] = NL
          THEN SubSeq(un[i], 1, Len(un[i]) - 1)
          ELSE un[i]]

\* One step of tokenize's loop over the lines. st is the generator's state:
\* key (<<>> for none, else <<the key>>), buf, want_newline, out.
tokenize_line(st, rawline) ==
    LET line == rstrip(rawline, CRLF) \o <<NL>>
        bits == split1(line, ":")
        first_bit == strip(bits[2], {"\t", " "})
    IN IF rstrip(line, WS) = <<"-", "-", "-">>
       THEN IF st.key # <<>>
            THEN [key |-> <<>>, buf |-> <<>>, want_newline |-> FALSE,
                  out |-> Append(st.out, <<st.key[1], process_buf(st.buf)>>)]
            ELSE [st EXCEPT !.want_newline = FALSE]
       ELSE IF st.key # <<>>
       THEN IF st.want_newline /\ strip(line, WS) = <<>>
            THEN [st EXCEPT !.want_newline = FALSE]
            ELSE [st EXCEPT !.want_newline = FALSE, !.buf = Append(@, line)]
       ELSE IF Len(bits) = 2
       THEN IF strip(first_bit, WS) # <<>>
            THEN [st EXCEPT !.key = <<strip(bits[1], WS)>>,
                            !.buf = <<first_bit>>]
            ELSE [st EXCEPT !.key = <<strip(bits[1], WS)>>, !.buf = <<>>,
                            !.want_newline = TRUE]
       ELSE st

RECURSIVE tokenize_from(_, _, _)
tokenize_from(lines, i, st) ==
    IF i > Len(lines)
    THEN IF st.key # <<>>
         THEN Append(st.out, <<st.key[1], process_buf(st.buf)>>)
         ELSE st.out
    ELSE tokenize_from(lines, i + 1, tokenize_line(st, lines[i]))

\* lektor.metaformat.tokenize(iterable): the <<key, lines>> pairs of a
\* document given as its lines
tokenize(lines) ==
    tokenize_from(lines, 1, [key |-> <<>>, buf |-> <<>>,
                             want_newline |-> FALSE, out |-> <<>>])

\* the chunks serialize yields for one <<key, value>> item
serialize_item(key, value) ==
    IF FindFrom(value, <<NL>>, 1) # 0 \/ strip(value, {"\t", " "}) # value
    THEN LET ls == splitlines_keep(value)
         IN key \o <<":", NL>> \o <<NL>>
            \o concat([i \in 1..Len(ls) |->
                         IF line_is_dashes(ls[i]) THEN <<"-">> \o ls[i]
                         ELSE ls[i]])
            \o <<NL>>
    ELSE key \o <<":", " ">> \o value \o <<NL>>

\* lektor.metaformat.serialize(items), its chunks joined
serialize(items) ==
    concat([i \in 1..Len(items) |->
              (IF i > 1 THEN <<"-", "-", "-", NL>> ELSE <<>>)
              \o serialize_item(items[i][1], items[i][2])])

HASH4 == <<"#", "#", "#", "#">>

HASH5 == <<"#", "#", "#", "#", "#">>

\* lektor.types.flow._block_re, ^####\s*([^#]*?)\s*####\s*$ : <<name>> when
\* line starts a block, <<>> when it does not
block_re(line) ==
    IF ~IsAt(line, HASH4, 1) THEN <<>>
    ELSE LET rest == Drop(line, 4)
             p == FindFrom(rest, <<"#">>, 1)
         IN IF p = 0 \/ ~IsAt(rest, HASH4, p) THEN <<>>
            ELSE IF strip(Drop(rest, p + 3), WS) # <<>> THEN <<>>
            ELSE <<strip(SubSeq(rest, 1, p - 1), WS)>>

\* One step of process_flowblock_data's loop. st: block (<<>> for None,
\* else <<name>>), buf, blocks, exc.
flowblock_line(st, line) ==
    LET block_start == block_re(line)
    IN IF st.exc # "none" THEN st
       ELSE IF st.block = <<>> /\ strip(line, WS) = <<>> THEN st
       ELSE IF block_start = <<>>
       THEN IF st.block = <<>> THEN [st EXCEPT !.exc = "BadFlowBlock"]
            ELSE [st EXCEPT !.buf = Append(@, replace(line, HASH5, HASH4, -1))]
       ELSE IF st.block # <<>>
       THEN [st EXCEPT !.blocks = Append(@, <<st.block[1], st.buf>>),
                       !.buf = <<>>, !.block = block_start]
       ELSE [st EXCEPT !.block = block_start]

RECURSIVE flowblock_from(_, _, _)
flowblock_from(lines, i, st) ==
    IF i > Len(lines)
    THEN IF st.block # <<>> /\ st.exc = "none"
         THEN [st EXCEPT !.blocks = Append(@, <<st.block[1], st.buf>>)]
         ELSE st
    ELSE flowblock_from(lines, i + 1, flowblock_line(st, lines[i]))

\* lektor.types.flow.process_flowblock_data(raw_value): [exc, blocks], the
\* blocks as <<name, lines>> pairs; exc is "BadFlowBlock" when text comes
\* before the first block marker
process_flowblock_data(raw_value) ==
    flowblock_from(splitlines_keep(raw_value), 1,
                   [block |-> <<>>, buf |-> <<>>, blocks |-> <<>>,
                    exc |-> "none"])

\* ------------------------------------------------------------------------
\* State
\* ------------------------------------------------------------------------

VARIABLES
    \* the environment
    config,                 \* configs/i18n.ini: option name -> value
    site,                   \* the content tree: the documents with a contents.lr
    files,                  \* the contents+<language>.lr files written so far
    pofiles,                \* i18npath/contents+<language>.po: language -> kind
    compiled,               \* i18npath/_compiled/<language>/...mo: language -> kind
    pot,                    \* i18npath/contents.pot as write_pot left it
    ctx,                    \* lektor.context.get_ctx(): <<>> or <<locale>>
    \* the process
    status,                 \* "new", "ready", or "raised": a handler raised
    memory,                 \* translations.translations (module singleton)
    enabled,                \* I18NPlugin.enabled
    trans_parwise,          \* I18NPlugin.trans_parwise
    content_language,       \* I18NPlugin.content_language
    translations_languages, \* I18NPlugin.translations_languages
    lastlang,               \* TemplateTranslator.__lastlang: <<>> or <<locale>>
    translator,             \* TemplateTranslator.translator
    \* observation
    lastop,                 \* the handler that ran last, and on what
    answer,                 \* how the last gettext / ngettext call was answered
    history,                \* the Translations.add calls made directly
    call,                   \* a field and its content, for translate_field
    result                  \* what the last translate_field call returned

vars == <<config, site, files, pofiles, compiled, pot, ctx, status, memory,
          enabled, trans_parwise, content_language, translations_languages,
          lastlang, translator, lastop, answer, history, call, result>>

\* ------------------------------------------------------------------------
\* Names
\* ------------------------------------------------------------------------

\* lektor.environment.PRIMARY_ALT
PRIMARY_ALT == <<"_", "p", "r", "i", "m", "a", "r", "y">>

EN == <<"e", "n">>

FR == <<"f", "r">>

DE == <<"d", "e">>

\* the values of the translate option that enable translation
\* (lines 307 and 379-384); the integer 1 is written "1 (int)"
TRUTHY == {"True", "true", "1", "1 (int)"}

\* ------------------------------------------------------------------------
\* gettext
\* ------------------------------------------------------------------------

\* what a compiled catalog holds for the empty msgid: its header entry
MoHeader == <<"H">>

\* the msgstr a translated catalog holds for msgid
Msgstr(msgid) == <<"x">> \o msgid

\* gettext.translation("contents", join(i18npath, "_compiled"),
\* languages=[language], fallback=True): the compiled catalog of language
\* when mo (the _compiled tree) has one, else a NullTranslations
gettext_translation(mo, language) ==
    IF language \in DOMAIN mo
    THEN [class |-> "GNUTranslations", lang |-> language, kind |-> mo[language]]
    ELSE [class |-> "NullTranslations", lang |-> language, kind |-> "none"]

\* gettext.GNUTranslations(): no file was parsed, the object has no catalog
EmptyTranslations ==
    [class |-> "GNUTranslations", lang |-> <<>>, kind |-> "unparsed"]

\* translator.gettext(message), for a loaded translator
gettext(tr, message) ==
    IF tr.class = "NullTranslations" THEN message
    ELSE IF message = <<>> THEN MoHeader
    ELSE IF tr.kind = "translated" THEN Msgstr(message)
    ELSE message

\* ------------------------------------------------------------------------
\* Translations (the memory)
\* ------------------------------------------------------------------------

\* Translations.add without the test of line 93: the source is appended
\* whether or not the entry already has it
add_unchecked(translations, text, source) ==
    IF DictHas(translations, text)
    THEN DictSet(translations, text, Append(DictGet(translations, text), source))
    ELSE DictSet(translations, text, <<source>>)

\* Translations.add(text, source), on the OrderedDict translations
add(translations, text, source) ==
    LET with == IF ~DictHas(translations, text)
                THEN DictSet(translations, text, <<>>)
                ELSE translations
        paths == DictGet(with, text)
    IN IF \A i \in 1..Len(paths) : paths[i] # source
       THEN DictSet(with, text, Append(paths, source))
       ELSE with

\* the four replacements of as_pot, in the order of the dict literal
pot_escape(msg) ==
    replace(replace(replace(replace(msg, <<"\\">>, <<"\\", "\\">>, -1),
                            <<NL>>, <<"\\", "n">>, -1),
                    <<"\t">>, <<"\\", "t">>, -1),
            <<"\"">>, <<"\\", "\"">>, -1)

\* POT_HEADER % {"LANGUAGE": ..., "NOW": ...}: only its Language line is
\* kept (the other lines are fixed text and the time of the run)
pot_header(language) ==
    <<"L", "a", "n", "g", "u", "a", "g", "e", ":", " ">> \o language
    \o <<NL, NL>>

\* Translations.as_pot(content_language)
as_pot(translations, language) ==
    pot_header(language)
    \o concat([i \in 1..Len(translations) |->
                 <<"#", ":", " ">> \o join(translations[i][2], <<" ">>) \o <<NL>>
                 \o <<"m", "s", "g", "i", "d", " ", "\"">>
                 \o pot_escape(translations[i][1]) \o <<"\"", NL>>
                 \o <<"m", "s", "g", "s", "t", "r", " ", "\"", "\"", NL, NL>>])

\* ------------------------------------------------------------------------
\* I18NPlugin: the rewrite pass
\*
\* self is the plugin object: its attributes trans_parwise,
\* content_language, translations_languages, url_prefix, and mo, the
\* compiled catalogs found under self.i18npath. A function that can raise
\* returns [exc, val]: exc is "none" or the exception's class.
\* ------------------------------------------------------------------------

\* the test of lines 379-384 (and of lines 305 and 307): the field has a
\* translate option and its value enables translation
translate_option(field) ==
    /\ DictHas(field.options, "translate")
    /\ DictGet(field.options, "translate") \in TRUTHY

\* I18NPlugin.____trans_linewise(content, translator)
__trans_linewise(content, tr) ==
    LET ls == split(content, NL)
    IN join([k \in 1..Len(ls) |->
               LET line == ls[k]
                   line_stripped == hl_sub(strip(line, WS))
                   trans_stripline == IF line_stripped # <<>>
                                      THEN gettext(tr, line_stripped)
                                      ELSE <<>>
               IN replace(line, line_stripped, trans_stripline, 1)],
            <<NL>>)

\* I18NPlugin.__trans_parwise(content, translator)
__trans_parwise(content, tr) ==
    LET ps == split_paragraphs(content)
    IN join([k \in 1..Len(ps) |->
               LET paragraph == ps[k]
                   stripped == strip(paragraph, CRLF)
               IN replace(paragraph, stripped, gettext(tr, stripped), -1)],
            <<NL, NL>>)

Return(v) == [exc |-> "none", val |-> v]

Raise(e, v) == [exc |-> e, val |-> v]

RECURSIVE translate_field(_, _, _, _, _, _)
RECURSIVE translate_flowblock(_, _, _, _, _, _)
RECURSIVE translate_flowblock_data(_, _, _, _, _)
RECURSIVE translate_flowblock_fields(_, _, _, _, _, _, _, _)
RECURSIVE translate_flowblock_fields_next(_, _, _, _, _, _, _, _, _)
RECURSIVE translate_flowblock_blocks(_, _, _, _, _, _, _)
RECURSIVE translate_flowblock_blocks_next(_, _, _, _, _, _, _, _)

\* lines 357-363: the items of a sub-block field, each stripped, joined
flowblock_field_content(items) ==
    join([k \in 1..Len(items) |-> strip(items[k], WS)], <<NL>>)

\* lines 364-372: r is what translate_field returned for field j, or the
\* exception it raised, which goes up
translate_flowblock_fields_next(self, fields, j, flowblock_content, language, flowblocks, nested, translated, r) ==
    IF r.exc # "none" THEN r
    ELSE translate_flowblock_fields(self, fields, j + 1, flowblock_content,
                                    language, flowblocks, nested,
                                    DictSet(translated, fields[j].name, r.val))

\* the loop of lines 355-372 over the fields of one sub-block's model, from
\* field j on; translated is flowblock_content_translated so far
translate_flowblock_fields(self, fields, j, flowblock_content, language, flowblocks, nested, translated) ==
    IF j > Len(fields) THEN Return(translated)
    ELSE IF ~DictHas(flowblock_content, fields[j].name)
    THEN translate_flowblock_fields(self, fields, j + 1, flowblock_content,
                                    language, flowblocks, nested, translated)
    ELSE translate_flowblock_fields_next(
             self, fields, j, flowblock_content, language, flowblocks, nested,
             translated,
             translate_field(
                 self, fields[j],
                 flowblock_field_content(
                     SelectSeq(DictGet(flowblock_content, fields[j].name),
                               LAMBDA item : item # <<>>)),
                 language, flowblocks, nested + 1))

\* line 350-351: the marker line of a sub-block
flowblock_marker(blockname, nested) ==
    HASH4 \o [k \in 1..nested |-> "#"] \o <<" ">> \o blockname \o <<" ">>
    \o HASH4 \o [k \in 1..nested |-> "#"] \o <<NL>>

\* lines 373-374: r is the translated content of sub-block i, or the
\* exception raised on the way, which goes up
translate_flowblock_blocks_next(self, blocks, i, language, flowblocks, nested, ret, r) ==
    IF r.exc # "none" THEN r
    ELSE translate_flowblock_blocks(
             self, blocks, i + 1, language, flowblocks, nested,
             ret \o <<flowblock_marker(blocks[i][1], nested), serialize(r.val)>>)

\* the loop of lines 349-374 over the sub-blocks, from block i on; ret is
\* the list of chunks so far
translate_flowblock_blocks(self, blocks, i, language, flowblocks, nested, ret) ==
    IF i > Len(blocks) THEN Return(strip(concat(ret), WS))
    ELSE IF blocks[i][1] \notin DOMAIN flowblocks
    THEN Raise("KeyError", <<>>)
    ELSE translate_flowblock_blocks_next(
             self, blocks, i, language, flowblocks, nested, ret,
             translate_flowblock_fields(
                 self, flowblocks[blocks[i][1]].fields, 1,
                 dict(tokenize(blocks[i][2])), language, flowblocks, nested,
                 <<>>))

\* lines 349-375 on data, what process_flowblock_data returned or raised
translate_flowblock_data(self, data, language, flowblocks, nested) ==
    IF data.exc # "none" THEN Raise(data.exc, <<>>)
    ELSE translate_flowblock_blocks(self, data.blocks, 1, language,
                                    flowblocks, nested, <<>>)

\* I18NPlugin.translate_flowblock(field, field_content, language,
\* flowblocks, nested); "".join(field_content) of a str is that str
translate_flowblock(self, field, field_content, language, flowblocks, nested) ==
    translate_flowblock_data(self, process_flowblock_data(field_content),
                             language, flowblocks, nested)

\* lines 385-394: the field's content through the catalog of the language
translate_text(self, field_content, tr) ==
    IF self.trans_parwise
    THEN __trans_parwise(field_content, tr)
    ELSE __trans_linewise(field_content, tr)

\* I18NPlugin.translate_field(field, field_content, language, flowblocks,
\* nested)
translate_field(self, field, field_content, language, flowblocks, nested) ==
    IF translate_option(field)
    THEN Return(translate_text(self, field_content,
                               gettext_translation(self.mo, language)))
    ELSE IF field.type = "flow"
    THEN translate_flowblock(self, field, field_content, language,
                             flowblocks, nested)
    ELSE Return(field_content)

RECURSIVE translate_contents_fields(_, _, _, _, _, _, _)

\* lines 445-449: r is what translate_field returned for field j, or the
\* exception it raised, which goes up
translate_contents_fields_next(self, fields, j, content, language, flowblocks, content_alt, r) ==
    IF r.exc # "none" THEN r
    ELSE translate_contents_fields(self, fields, j + 1, content, language,
                                   flowblocks,
                                   DictSet(content_alt, fields[j].name, r.val))

\* I18NPlugin.translate_contents, the loop of lines 443-449 over the fields
\* of the document's model, from field j on; content_alt is
\* content_alt[language] so far
translate_contents_fields(self, fields, j, content, language, flowblocks, content_alt) ==
    IF j > Len(fields) THEN Return(content_alt)
    ELSE IF ~DictHas(content, fields[j].name)
    THEN translate_contents_fields(self, fields, j + 1, content, language,
                                   flowblocks, content_alt)
    ELSE translate_contents_fields_next(
             self, fields, j, content, language, flowblocks, content_alt,
             translate_field(self, fields[j], DictGet(content, fields[j].name),
                             language, flowblocks, 0))

\* the content dict of lines 426-431: each key with its lines joined
content_dict(pairs) ==
    dict([k \in 1..Len(pairs) |-> <<pairs[k][1], concat(pairs[k][2])>>])

read_content(text) == content_dict(tokenize(splitlines_keep(text)))

\* lines 441-449: content_alt[language] of one document
translate_contents_alt(self, fields, content, language, flowblocks) ==
    IF language # self.content_language
    THEN translate_contents_fields(self, fields, 1, content, language,
                                   flowblocks, content)
    ELSE Return(content)

\* lines 450-455: the translated file is written, unless the translation
\* raised; fs are the files there are
write_alt(r, fs, key) ==
    IF r.exc # "none" THEN Raise(r.exc, fs)
    ELSE Return([k \in (DOMAIN fs) \cup {key} |->
                   IF k = key THEN serialize(r.val) ELSE fs[k]])

RECURSIVE translate_contents_from(_, _, _, _, _, _, _)

\* r is the files after the file of document i and language k was written,
\* or the exception raised on the way, which goes up
translate_contents_next(self, docs, datamodels, flowblocks, i, k, r) ==
    IF r.exc # "none" THEN r
    ELSE translate_contents_from(self, docs, datamodels, flowblocks, i, k + 1,
                                 r.val)

\* the loops of lines 421 and 440 from document i and language k on
translate_contents_from(self, docs, datamodels, flowblocks, i, k, fs) ==
    IF i > Len(docs) THEN Return(fs)
    ELSE IF k > Len(self.translations_languages)
    THEN translate_contents_from(self, docs, datamodels, flowblocks,
                                 i + 1, 1, fs)
    ELSE translate_contents_next(
             self, docs, datamodels, flowblocks, i, k,
             write_alt(translate_contents_alt(
                           self, datamodels[docs[i].model],
                           read_content(docs[i].text),
                           self.translations_languages[k], flowblocks),
                       fs, <<i, self.translations_languages[k]>>))

\* I18NPlugin.translate_contents(builder): for every document of the content
\* tree and every language, the file contents+<language>.lr. docs is the
\* tree in os.walk order, datamodels and flowblocks are the project's
\* models, written the files there are. Returns [exc, val]: val is the files
\* after the call, also when it raised part way.
translate_contents(self, docs, datamodels, flowblocks, written) ==
    translate_contents_from(self, docs, datamodels, flowblocks, 1, 1, written)

\* ------------------------------------------------------------------------
\* I18NPlugin: the analysis pass
\* ------------------------------------------------------------------------

\* os.path.relpath(path, start) for a path below start
relpath(path, start) ==
    IF IsAt(path, start \o <<"/">>, 1) THEN Drop(path, Len(start) + 1)
    ELSE path

\* urllib.parse.urljoin(base, url) for an absolute path url: the scheme and
\* host of base, if it has them, followed by url
urljoin(base, url) ==
    LET s == FindFrom(base, <<"/", "/">>, 1)
        e == IF s = 0 THEN 0 ELSE FindFrom(base, <<"/">>, s + 2)
    IN IF s = 0 THEN url
       ELSE IF e = 0 THEN base \o url
       ELSE SubSeq(base, 1, e - 1) \o url

\* the chunks of a section, lines 313-320
section_chunks(self, section) ==
    IF self.trans_parwise THEN split_paragraphs(concat(section))
    ELSE LET stripped == [k \in 1..Len(section) |->
                            hl_sub(strip(section[k], WS))]
         IN SelectSeq(stripped, LAMBDA line_stripped : line_stripped # <<>>)

RECURSIVE add_chunks(_, _, _, _, _)

\* lines 321-327: every chunk from chunk k on is added to the memory mem
add_chunks(chunks, k, translation_url, translation_source, mem) ==
    IF k > Len(chunks) THEN mem
    ELSE add_chunks(chunks, k + 1, translation_url, translation_source,
                    add(mem, strip(chunks[k], CRLF),
                        translation_url \o <<" ">> \o translation_source))

\* lines 300-302 and 322: "<source_relpath>:<zone>.<field.name>"
translation_source(self, source, zone, field, root) ==
    relpath(replace(source.source_filename,
                    <<"+">> \o self.content_language \o <<".", "l", "r">>,
                    <<".", "l", "r">>, -1),
            root)
    \o <<":">> \o zone \o <<".">> \o field.name

\* the test of lines 304-308 without its middle line: the alternative of the
\* source is not looked at
field_is_extracted_any_alt(self, field, source) ==
    /\ DictHas(field.options, "translate")
    /\ DictGet(field.options, "translate") \in TRUTHY

\* the test of lines 304-308
field_is_extracted(self, field, source) ==
    /\ DictHas(field.options, "translate")
    /\ source.alt \in {PRIMARY_ALT, self.content_language}
    /\ DictGet(field.options, "translate") \in TRUTHY

\* lines 304-327 for one field: the memory after its chunks are added
process_node_add(self, field, sections, source, zone, root, mem) ==
    IF /\ field_is_extracted(self, field, source)
       /\ DictHas(sections, field.name)
    THEN add_chunks(section_chunks(self, DictGet(sections, field.name)), 1,
                    urljoin(self.url_prefix, source.url_path),
                    translation_source(self, source, zone, field, root),
                    mem)
    ELSE mem

RECURSIVE process_node(_, _, _, _, _, _, _)
RECURSIVE process_node_fields(_, _, _, _, _, _, _, _)
RECURSIVE process_node_blocks(_, _, _, _, _, _)
RECURSIVE process_node_blocks_next(_, _, _, _, _, _)
RECURSIVE process_node_fields_next(_, _, _, _, _, _, _, _)
RECURSIVE process_node_flow(_, _, _, _, _, _)
RECURSIVE process_node_sub(_, _, _, _, _)

\* r is the memory after sub-block k was processed, or the exception
\* raised on the way, which goes up
process_node_blocks_next(self, blocks, k, source, root, r) ==
    IF r.exc # "none" THEN r
    ELSE process_node_blocks(self, blocks, k + 1, source, root, r.val)

\* the loop of lines 332-343 over the sub-blocks of a flow section
process_node_blocks(self, blocks, k, source, root, mem) ==
    IF k > Len(blocks) THEN Return(mem)
    ELSE IF blocks[k][1] \notin DOMAIN source.flowblocks
    THEN Raise("KeyError", mem)
    ELSE process_node_blocks_next(
             self, blocks, k, source, root,
             process_node(self, source.flowblocks[blocks[k][1]].fields,
                          dict(tokenize(blocks[k][2])), source, blocks[k][1],
                          root, mem))

\* lines 332-343: the sub-blocks data of a flow section, or the exception of
\* the parser
process_node_sub(self, data, source, root, mem) ==
    IF data.exc # "none" THEN Raise(data.exc, mem)
    ELSE process_node_blocks(self, data.blocks, 1, source, root, mem)

\* lines 329-343 for one field
process_node_flow(self, field, sections, source, root, mem) ==
    IF field.type = "flow" /\ DictHas(sections, field.name)
    THEN process_node_sub(
             self,
             process_flowblock_data(concat(DictGet(sections, field.name))),
             source, root, mem)
    ELSE Return(mem)

\* r is the memory after field j was processed, or the exception raised on
\* the way, which goes up
process_node_fields_next(self, fields, j, sections, source, zone, root, r) ==
    IF r.exc # "none" THEN r
    ELSE process_node_fields(self, fields, j + 1, sections, source, zone,
                             root, r.val)

\* the loop of lines 303-343 over the fields, from field j on
process_node_fields(self, fields, j, sections, source, zone, root, mem) ==
    IF j > Len(fields) THEN Return(mem)
    ELSE process_node_fields_next(
             self, fields, j, sections, source, zone, root,
             process_node_flow(
                 self, fields[j], sections, source, root,
                 process_node_add(self, fields[j], sections, source, zone,
                                  root, mem)))

\* I18NPlugin.process_node(fields, sections, source, zone, root_path) on the
\* memory mem: [exc, val], val the memory after the call, also when it raised
process_node(self, fields, sections, source, zone, root, mem) ==
    process_node_fields(self, fields, 1, sections, source, zone, root, mem)

\* ------------------------------------------------------------------------
\* TemplateTranslator
\* ------------------------------------------------------------------------

\* TemplateTranslator.init_translator(): tt is the object, [lastlang,
\* translator]; c is get_ctx(), mo the compiled catalogs
init_translator(tt, c, mo) ==
    IF c = <<>>
    THEN [tt EXCEPT !.translator = EmptyTranslations]
    ELSE IF tt.lastlang # c
    THEN [lastlang |-> c, translator |-> gettext_translation(mo, c[1])]
    ELSE tt

\* translator.ngettext(msgid1, msgid2, n), for a loaded translator
ngettext(tr, msgid1, msgid2, n) ==
    LET msgid == IF n = 1 THEN msgid1 ELSE msgid2
    IN IF tr.class = "GNUTranslations" /\ tr.kind = "translated"
       THEN Msgstr(msgid)
       ELSE msgid

\* ------------------------------------------------------------------------
\* The project: models, pages, configuration
\* ------------------------------------------------------------------------

\* builder.env.root_path
root_path == <<"/", "r">>

LR == <<".", "l", "r">>

PAGE == <<"p", "a", "g", "e">>

FLOWT == <<"f", "l", "o", "w", "t">>

Field(name, type, options) == [name |-> name, type |-> type, options |-> options]

\* load_flowblocks(env) and source.pad.db.flowblocks: the flowblock models
FlowBlocks ==
    (<<"b">> :> [fields |-> <<Field(<<"t">>, "string", << <<"translate", "1">> >>),
                              Field(<<"c">>, "text", << <<"translate", "False">> >>),
                              Field(<<"f">>, "flow", <<>>)>>])
    @@ (<<"i">> :> [fields |-> <<Field(<<"t">>, "string",
                                        << <<"translate", "1 (int)">> >>)>>])

\* the datamodels: id -> fields
Datamodels ==
    (PAGE :> <<Field(<<"t">>, "string", << <<"translate", "True">> >>),
               Field(<<"n">>, "text", <<>>),
               Field(<<"f">>, "flow", <<>>)>>)
    @@ (FLOWT :> <<Field(<<"t">>, "markdown", << <<"translate", "true">> >>),
                   Field(<<"f">>, "flow", << <<"translate", "True">> >>)>>)

\* the alternatives a page is built for
PageAlts == {PRIMARY_ALT, EN, FR}

\* the Page of document i of the tree for alternative alt: Lektor reads
\* contents+<alt>.lr when it exists and contents.lr otherwise
Page(docs, written, i, alt) ==
    LET own == alt # PRIMARY_ALT /\ <<i, alt>> \in DOMAIN written
    IN [alt |-> alt,
        source_filename |->
            root_path \o <<"/">> \o docs[i].dir \o <<"/", "c", "o", "n", "t",
                                                    "e", "n", "t", "s">>
            \o (IF own THEN <<"+">> \o alt ELSE <<>>) \o LR,
        url_path |-> (IF alt = PRIMARY_ALT THEN <<"/">>
                      ELSE <<"/">> \o alt \o <<"/">>)
                     \o docs[i].dir \o <<"/">>,
        text |-> IF own THEN written[<<i, alt>>] ELSE docs[i].text,
        datamodel |-> [id |-> docs[i].model, fields |-> Datamodels[docs[i].model]],
        flowblocks |-> FlowBlocks]

\* IniFile.get(name, default)
ConfigGet(cfg, name, default) ==
    IF DictHas(cfg, name) THEN DictGet(cfg, name) ELSE default

TRUE_WORDS == {<<"t", "r", "u", "e">>, <<"T", "r", "u", "e">>, <<"1">>}

\* ------------------------------------------------------------------------
\* Inputs: documents, configurations
\* ------------------------------------------------------------------------

\* the marker line of a sub-block at nesting depth nested
Marker(name, nested) ==
    HASH4 \o [k \in 1..nested |-> "#"] \o <<" ">> \o name \o <<" ">>
    \o HASH4 \o [k \in 1..nested |-> "#"] \o <<NL>>

\* a flow value as Lektor writes it: each sub-block's marker and its fields
FlowValue(blocks, nested) ==
    strip(concat([k \in 1..Len(blocks) |->
                    Marker(blocks[k][1], nested) \o serialize(blocks[k][2])]),
          WS)

Doc(dir, model, items) == [dir |-> dir, model |-> model, text |-> serialize(items)]

\* t: a / n: a / f: one sub-block b with t: a and c: a
DocSimple(dir) ==
    Doc(dir, PAGE,
        << <<<<"t">>, <<"a">>>>,
           <<<<"n">>, <<"a">>>>,
           <<<<"f">>, FlowValue(<< <<<<"b">>, << <<<<"t">>, <<"a">>>>,
                                                 <<<<"c">>, <<"a">>>> >> >> >>, 0)>> >>)

\* an untranslated note with indented and blank lines, a field x the model
\* does not list, and a sub-block whose untranslated field c is indented
DocIndent ==
    Doc(<<"d">>, PAGE,
        << <<<<"t">>, <<"a">>>>,
           <<<<"n">>, <<" ", "a", NL, NL, "b">>>>,
           <<<<"x">>, <<"a">>>>,
           <<<<"f">>, FlowValue(<< <<<<"b">>, << <<<<"c">>, <<" ", "a", NL, "b">>>> >> >> >>, 0)>> >>)

\* a sub-block b holding a nested sub-block i
DocNested ==
    Doc(<<"d">>, PAGE,
        << <<<<"t">>, <<"-", " ", "a">>>>,
           <<<<"f">>, FlowValue(<< <<<<"b">>,
                << <<<<"t">>, <<"a">>>>,
                   <<<<"f">>, FlowValue(<< <<<<"i">>, << <<<<"t">>, <<"b">>>> >> >> >>, 1)>> >> >> >>, 0)>> >>)

\* a flow section naming a sub-block z that has no flowblock model,
\* followed by a field of its own and a known sub-block
DocUnknown ==
    Doc(<<"d">>, PAGE,
        << <<<<"f">>, FlowValue(<< <<<<"z">>, << <<<<"t">>, <<"a">>>> >> >>,
                                   <<<<"b">>, << <<<<"t">>, <<"b">>>> >> >> >>, 0)>>,
           <<<<"t">>, <<"a">>>> >>)

\* a document of the model whose flow field has translate = True
DocFlowT ==
    Doc(<<"d">>, FLOWT,
        << <<<<"t">>, <<"a">>>>,
           <<<<"f">>, FlowValue(<< <<<<"b">>, << <<<<"t">>, <<"b">>>> >> >> >>, 0)>> >>)

Sites ==
    {<<DocSimple(<<"d">>)>>, <<DocIndent>>, <<DocNested>>,
     <<DocUnknown, DocSimple(<<"e">>)>>, <<DocFlowT>>}

CfgUrl == <<"url_prefix", <<"/">>>>

CfgFrDe == <<"translations", <<"f", "r", ",", " ", "d", "e">>>>

\* configs/i18n.ini: without translations; line mode; paragraph mode; the
\* content language French and listed; disabled
Configs ==
    {<< CfgUrl >>,
     << CfgUrl, CfgFrDe >>,
     << CfgUrl, CfgFrDe, <<"translate_paragraphwise", <<"t", "r", "u", "e">>>> >>,
     << CfgUrl, <<"translations", <<"e", "n", ",", "f", "r">>>>,
        <<"content", FR>> >>,
     << CfgUrl, CfgFrDe, <<"enable", <<"f", "a", "l", "s", "e">>>> >>}

\* the .po files the translators supplied: none, or a translated French one
PoChoices == {<<>>, FR :> "translated"}

\* ------------------------------------------------------------------------
\* The process
\* ------------------------------------------------------------------------

\* the plugin object as the passes read it; mo is the _compiled tree
Self(mo) ==
    [trans_parwise |-> trans_parwise,
     content_language |-> content_language,
     translations_languages |-> translations_languages,
     url_prefix |-> ConfigGet(config, "url_prefix",
                              <<"h", "t", "t", "p", ":", "/", "/", "l", "o",
                                "c", "a", "l", "h", "o", "s", "t", "/">>),
     mo |-> mo]

NoOp == [op |-> "none", doc |-> 0, alt |-> <<>>, exc |-> "none"]

NoAnswer == [op |-> "none", ctx |-> <<>>, msg |-> <<>>, exc |-> "none",
             by |-> EmptyTranslations, val |-> <<>>]

\* no call of translate_field other than those of the rewrite pass
NoCall == [field |-> Field(<<>>, "string", <<>>), content |-> <<>>]

NoResult == [language |-> <<>>, exc |-> "none", val |-> <<>>]

\* the states in which the process starts, for the given inputs
InitWith(cfgs, sites, pos, calls) ==
    /\ config \in cfgs
    /\ site \in sites
    /\ pofiles \in pos
    /\ files = <<>>
    /\ compiled = <<>>
    /\ pot = <<>>
    /\ ctx = <<>>
    /\ status = "new"
    /\ memory = <<>>
    /\ enabled = FALSE
    /\ trans_parwise = FALSE
    /\ content_language = <<>>
    /\ translations_languages = <<>>
    /\ lastlang = <<>>
    /\ translator = EmptyTranslations
    /\ lastop = NoOp
    /\ answer = NoAnswer
    /\ history = <<>>
    /\ call \in calls
    /\ result = NoResult

Init == InitWith(Configs, Sites, PoChoices, {NoCall})

\* the languages of the translations option as listed: lines 290-291, which
\* append the content language, are left out
setup_languages_listed(cfg, content) ==
    split(replace(DictGet(cfg, "translations"), <<" ">>, <<>>, -1), ",")

\* the languages on_setup_env reads from the translations option, with the
\* content language appended when it is not among them (lines 280-291)
setup_languages(cfg, content) ==
    LET listed == split(replace(DictGet(cfg, "translations"), <<" ">>, <<>>, -1), ",")
    IN IF \A k \in 1..Len(listed) : listed[k] # content
       THEN Append(listed, content)
       ELSE listed

\* I18NPlugin.on_setup_env: reads the configuration, installs the template
\* translator, raises RuntimeError when there is no translations option
OnSetupEnv ==
    /\ status = "new"
    /\ enabled' = (ConfigGet(config, "enable", <<"t", "r", "u", "e">>) \in TRUE_WORDS)
    /\ trans_parwise' = (ConfigGet(config, "translate_paragraphwise",
                                   <<"f", "a", "l", "s", "e">>) \in TRUE_WORDS)
    /\ content_language' = ConfigGet(config, "content", EN)
    /\ LET tt == init_translator([lastlang |-> <<>>, translator |-> EmptyTranslations],
                                 ctx, compiled)
       IN lastlang' = tt.lastlang /\ translator' = tt.translator
    /\ IF DictHas(config, "translations")
       THEN /\ translations_languages' = setup_languages(config, content_language')
            /\ status' = "ready"
            /\ lastop' = [NoOp EXCEPT !.op = "on_setup_env"]
       ELSE /\ translations_languages' = translations_languages
            /\ status' = "raised"
            /\ lastop' = [NoOp EXCEPT !.op = "on_setup_env", !.exc = "RuntimeError"]
    /\ UNCHANGED <<config, site, files, pofiles, compiled, pot, ctx, memory,
                   answer, history,
                   call, result>>

\* POFile.compile() for every language (lines 518-520): msgfmt compiles each
\* .po file there is
compile_all(langs, po, mo) ==
    LET have == {langs[k] : k \in 1..Len(langs)} \cap DOMAIN po
    IN [l \in (DOMAIN mo) \cup have |-> IF l \in have THEN po[l] ELSE mo[l]]

\* POFile.generate() for every language (lines 551-553): msgmerge keeps an
\* existing .po file, msginit creates an untranslated one
generate_all(langs, po) ==
    [l \in (DOMAIN po) \cup {langs[k] : k \in 1..Len(langs)} |->
       IF l \in DOMAIN po THEN po[l] ELSE "untranslated"]

\* on_before_build_all with a rewrite pass that registers what it reads: the
\* fields of the first document are added to the memory while the contents
\* are translated
OnBeforeBuildAllRegistering ==
    /\ status = "ready"
    /\ enabled
    /\ \E mo \in {compile_all(translations_languages, pofiles, compiled)} :
       \E r \in {translate_contents(Self(mo), site, Datamodels, FlowBlocks,
                                    files)} :
       \E source \in {Page(site, files, 1, PRIMARY_ALT)} :
          /\ compiled' = mo
          /\ files' = r.val
          /\ status' = IF r.exc = "none" THEN "ready" ELSE "raised"
          /\ lastop' = [NoOp EXCEPT !.op = "on_before_build_all", !.exc = r.exc]
          /\ memory' = process_node(Self(mo), source.datamodel.fields,
                                    dict(tokenize(splitlines(source.text))),
                                    source, source.datamodel.id, root_path,
                                    memory).val
    /\ UNCHANGED <<config, site, pofiles, pot, ctx, enabled, trans_parwise,
                   content_language, translations_languages, lastlang,
                   translator, answer, history, call, result>>

\* I18NPlugin.on_before_build_all: compiles the catalogs, then rewrites every
\* document for every language (translate_contents)
OnBeforeBuildAll ==
    /\ status = "ready"
    /\ IF enabled
       THEN \E mo \in {compile_all(translations_languages, pofiles, compiled)} :
            \E r \in {translate_contents(Self(mo), site, Datamodels,
                                         FlowBlocks, files)} :
               /\ compiled' = mo
               /\ files' = r.val
               /\ status' = IF r.exc = "none" THEN "ready" ELSE "raised"
               /\ lastop' = [NoOp EXCEPT !.op = "on_before_build_all", !.exc = r.exc]
       ELSE /\ UNCHANGED <<compiled, files, status>>
            /\ lastop' = [NoOp EXCEPT !.op = "on_before_build_all"]
    /\ UNCHANGED <<config, site, pofiles, pot, ctx, memory, enabled,
                   trans_parwise, content_language, translations_languages,
                   lastlang, translator, answer, history,
                   call, result>>

\* I18NPlugin.on_after_build for the page of document i and alternative alt:
\* the analysis pass (process_node) over the page's text
OnAfterBuild(i, alt) ==
    /\ status = "ready"
    /\ IF enabled
       THEN \E source \in {Page(site, files, i, alt)} :
            \E r \in {process_node(Self(compiled), source.datamodel.fields,
                                   dict(tokenize(splitlines(source.text))),
                                   source, source.datamodel.id, root_path,
                                   memory)} :
               /\ memory' = r.val
               /\ status' = IF r.exc = "none" THEN "ready" ELSE "raised"
               /\ lastop' = [op |-> "on_after_build", doc |-> i, alt |-> alt,
                             exc |-> r.exc]
       ELSE /\ UNCHANGED <<memory, status>>
            /\ lastop' = [op |-> "on_after_build", doc |-> i, alt |-> alt,
                          exc |-> "none"]
    /\ UNCHANGED <<config, site, files, pofiles, compiled, pot, ctx, enabled,
                   trans_parwise, content_language, translations_languages,
                   lastlang, translator, answer, history,
                   call, result>>

\* I18NPlugin.on_after_build_all: writes contents.pot from the memory
\* (write_pot / as_pot) and creates or updates every language's .po file
OnAfterBuildAll ==
    /\ status = "ready"
    /\ IF enabled
       THEN /\ pot' = as_pot(memory, content_language)
            /\ pofiles' = generate_all(translations_languages, pofiles)
       ELSE UNCHANGED <<pot, pofiles>>
    /\ lastop' = [NoOp EXCEPT !.op = "on_after_build_all"]
    /\ UNCHANGED <<config, site, files, compiled, ctx, status, memory, enabled,
                   trans_parwise, content_language, translations_languages,
                   lastlang, translator, answer, history,
                   call, result>>

Next ==
    \/ OnSetupEnv
    \/ OnBeforeBuildAll
    \/ \E i \in 1..Len(site), alt \in PageAlts : OnAfterBuild(i, alt)
    \/ OnAfterBuildAll

Spec == Init /\ [][Next]_vars

\* ------------------------------------------------------------------------
\* The build: claims about the passes
\* ------------------------------------------------------------------------

Range(s) == {s[k] : k \in 1..Len(s)}

EndsWith(s, suffix) ==
    /\ Len(s) >= Len(suffix)
    /\ SubSeq(s, Len(s) - Len(suffix) + 1, Len(s)) = suffix

\* C4: the memory is written only by the analysis pass (on_after_build):
\* on_before_build_all (the rewrite pass) and on_after_build_all (the
\* rendering of the template) leave it as it is, and the template written is
\* the rendering of that memory.
C4_MemoryWrittenOnlyByAnalysis ==
    [][/\ lastop'.op \in {"on_before_build_all", "on_after_build_all"}
           => memory' = memory
       /\ memory' # memory => lastop'.op = "on_after_build"
       /\ (lastop'.op = "on_after_build_all" /\ enabled)
           => pot' = as_pot(memory, content_language)]_vars

\* C4: the rewrite pass has just run over a site whose units are in the
\* memory already, and has written translated files
C4_Witness ==
    /\ lastop.op = "on_before_build_all"
    /\ lastop.exc = "none"
    /\ memory # <<>>
    /\ files # <<>>

\* the sources a page of document i registers its units under start with
\* the page's URL
FromPage(src, i, alt) ==
    IsAt(src, urljoin(Self(compiled).url_prefix,
                      Page(site, files, i, alt).url_path) \o <<" ">>, 1)

\* C5: every unit of the memory was registered from a page whose alt is the
\* primary alt or the content language, and process_node on a page of any
\* other alt adds nothing, at top level and inside sub-blocks.
C5_NoExtractionFromTranslatedAlt ==
    /\ [](\A k \in 1..Len(memory) : \A src \in Range(memory[k][2]) :
            \E i \in 1..Len(site), alt \in {PRIMARY_ALT, content_language} :
               FromPage(src, i, alt))
    /\ [][(/\ lastop'.op = "on_after_build"
            /\ lastop'.alt \notin {PRIMARY_ALT, content_language})
           => memory' = memory]_vars

\* C5: on_after_build has run on the French page of a document with a
\* nested sub-block, French being a translation whose file was written, after
\* the units of the primary page were registered
C5_Witness ==
    /\ lastop.op = "on_after_build"
    /\ lastop.alt = FR
    /\ lastop.exc = "none"
    /\ enabled
    /\ content_language = EN
    /\ site = <<DocNested>>
    /\ <<1, FR>> \in DOMAIN files
    /\ Len(memory) = 2

\* the fields with the translate option taken off the flow fields
NotDirect(fields) ==
    [k \in 1..Len(fields) |->
       IF fields[k].type = "flow"
       THEN Field(fields[k].name, "flow", <<>>)
       ELSE fields[k]]

\* C6: a flow field whose translate option is truthy is not translatable
\* itself: process_node registers no unit for the field's own section, and
\* the rewritten file holds for it what translate_flowblock gives, as for a
\* flow field without the option.
C6_FlowFieldNotTranslatedDirectly ==
    /\ \A i \in 1..Len(site) :
       \A f \in Range(Datamodels[site[i].model]) :
          (f.type = "flow" /\ translate_option(f))
            => \A k \in 1..Len(memory) : \A src \in Range(memory[k][2]) :
                  ~EndsWith(src, <<":">> \o site[i].model \o <<".">> \o f.name)
    /\ \A key \in DOMAIN files :
          LET r == translate_contents_alt(
                       Self(compiled), NotDirect(Datamodels[site[key[1]].model]),
                       read_content(site[key[1]].text), key[2], FlowBlocks)
          IN r.exc = "none" => files[key] = serialize(r.val)

\* C7: a flow section naming a sub-block without a flowblock model aborts
\* nothing: neither pass raises, extraction still registers the units of the
\* page's other fields, and the rewrite pass writes the file of every
\* document and language.
C7_UnknownBlockAbortsNothing ==
    /\ lastop.op \in {"on_after_build", "on_before_build_all"}
         => lastop.exc = "none"
    /\ (lastop.op = "on_after_build" /\ enabled
         /\ lastop.alt \in {PRIMARY_ALT, content_language})
         => LET source == Page(site, files, lastop.doc, lastop.alt)
                sections == dict(tokenize(splitlines(source.text)))
            IN \A f \in Range(source.datamodel.fields) :
                  (translate_option(f) /\ f.type # "flow"
                   /\ DictHas(sections, f.name))
                    => \A chunk \in Range(section_chunks(
                                             Self(compiled),
                                             DictGet(sections, f.name))) :
                          DictHas(memory, strip(chunk, CRLF))
    /\ (lastop.op = "on_before_build_all" /\ enabled)
         => \A i \in 1..Len(site) : \A l \in Range(translations_languages) :
               <<i, l>> \in DOMAIN files

\* C8: without a translations option on_setup_env raises, and nothing is
\* extracted, rewritten, compiled or rendered in the process; with it setup
\* succeeds and the content language is one of the languages.
C8_MissingTranslationsIsFatal ==
    /\ ~DictHas(config, "translations")
         => /\ status \in {"new", "raised"}
            /\ status = "raised"
                 => lastop = [NoOp EXCEPT !.op = "on_setup_env",
                                          !.exc = "RuntimeError"]
            /\ memory = <<>> /\ files = <<>> /\ pot = <<>> /\ compiled = <<>>
    /\ (DictHas(config, "translations") /\ status # "new")
         => /\ lastop.exc # "RuntimeError"
            /\ lastop.op = "on_setup_env" => status = "ready"
            /\ content_language \in Range(translations_languages)

\* C8: on_setup_env has raised for a configuration without translations
C8_Witness ==
    /\ ~DictHas(config, "translations")
    /\ status = "raised"
    /\ lastop.exc = "RuntimeError"

\* ------------------------------------------------------------------------
\* The memory alone: Translations.add called directly
\* ------------------------------------------------------------------------

MaxAdds == 4

Units == {<<"a">>, <<"b">>}

Locations == {<<"p">>, <<"q">>}

\* translations.add(text, source)
Add(text, source) ==
    /\ Len(history) < MaxAdds
    /\ memory' = add(memory, text, source)
    /\ history' = Append(history, <<text, source>>)
    /\ UNCHANGED <<config, site, files, pofiles, compiled, pot, ctx, status,
                   enabled, trans_parwise, content_language,
                   translations_languages, lastlang, translator, lastop,
                   answer, call, result>>

InitMemory ==
    InitWith({<< CfgUrl, CfgFrDe >>}, {<<DocSimple(<<"d">>)>>}, {<<>>}, {NoCall})

NextMemory == \E text \in Units, source \in Locations : Add(text, source)

SpecMemory == InitMemory /\ [][NextMemory]_vars

\* the elements of s without repetition, in the order of their first
\* occurrence
FirstSeen(s) ==
    LET firsts == {i \in 1..Len(s) : \A j \in 1..(i - 1) : s[j] # s[i]}
    IN [k \in 1..Cardinality(firsts) |->
          s[CHOOSE i \in firsts : Cardinality({j \in firsts : j < i}) = k - 1]]

\* the locations the adds h gave for unit, in the order of the adds
LocationsOf(h, unit) ==
    LET adds == SelectSeq(h, LAMBDA a : a[1] = unit)
    IN [k \in 1..Len(adds) |-> adds[k][2]]

\* the memory the adds h must leave: one entry per distinct unit in the
\* order of the units' first adds, each location once, first seen first
Deduplicated(h) ==
    LET units == FirstSeen([k \in 1..Len(h) |-> h[k][1]])
    IN [k \in 1..Len(units) |->
          <<units[k], FirstSeen(LocationsOf(h, units[k]))>>]

\* C2: after any sequence of add(unit, location) calls the memory holds one
\* entry per distinct unit added, in the order of the units' first adds,
\* each entry lists every location added for its unit exactly once in
\* first-seen order, and repeating an add already made changes nothing.
C2_Deduplication ==
    /\ memory = Deduplicated(history)
    /\ \A k \in 1..Len(history) :
          add(memory, history[k][1], history[k][2]) = memory

\* C2: a unit was added from one location, then from another, then again
\* from the first, and a second unit was added as well
C2_Witness ==
    /\ Len(history) = 4
    /\ history[1] = history[3]
    /\ history[2][1] = history[1][1]
    /\ history[2][2] # history[1][2]
    /\ history[4][1] # history[1][1]
    /\ Len(memory) = 2
    /\ Len(memory[1][2]) = 2

\* ------------------------------------------------------------------------
\* The template translator: gettext and ngettext called from templates
\* ------------------------------------------------------------------------

\* get_ctx(): no build context, or the context of a page of some locale
Contexts == {<<>>, <<FR>>, <<DE>>}

Messages == {<<"a">>, <<"b">>}

\* Lektor enters or leaves the build context of a page
SetCtx(c) ==
    /\ status = "ready"
    /\ c # ctx
    /\ ctx' = c
    /\ UNCHANGED <<config, site, files, pofiles, compiled, pot, status, memory,
                   enabled, trans_parwise, content_language,
                   translations_languages, lastlang, translator, lastop,
                   answer, history, call, result>>

\* what a call on the translator tr gives: a GNUTranslations that parsed no
\* file has no _catalog, and every lookup raises AttributeError
Answer(op, msg, tr, val) ==
    [op |-> op, ctx |-> ctx, msg |-> msg, by |-> tr,
     exc |-> IF tr.kind = "unparsed" THEN "AttributeError" ELSE "none",
     val |-> IF tr.kind = "unparsed" THEN <<>> ELSE val]

\* TemplateTranslator.gettext(x), called from a template; templates are
\* rendered after on_before_build_all compiled the catalogs
Gettext(x) ==
    /\ status = "ready"
    /\ lastop.op = "on_before_build_all"
    /\ \E tt \in {init_translator([lastlang |-> lastlang,
                                     translator |-> translator],
                                    ctx, compiled)} :
          /\ lastlang' = tt.lastlang
          /\ translator' = tt.translator
          /\ answer' = Answer("gettext", x, tt.translator,
                              gettext(tt.translator, x))
    /\ UNCHANGED <<config, site, files, pofiles, compiled, pot, ctx, status,
                   memory, enabled, trans_parwise, content_language,
                   translations_languages, lastop, history, call, result>>

\* TemplateTranslator.ngettext(msgid1, msgid2, n)
Ngettext(msgid1, msgid2, n) ==
    /\ status = "ready"
    /\ lastop.op = "on_before_build_all"
    /\ \E tt \in {init_translator([lastlang |-> lastlang,
                                     translator |-> translator],
                                    ctx, compiled)} :
          /\ lastlang' = tt.lastlang
          /\ translator' = tt.translator
          /\ answer' = Answer("ngettext", IF n = 1 THEN msgid1 ELSE msgid2,
                              tt.translator,
                              ngettext(tt.translator, msgid1, msgid2, n))
    /\ UNCHANGED <<config, site, files, pofiles, compiled, pot, ctx, status,
                   memory, enabled, trans_parwise, content_language,
                   translations_languages, lastop, history, call, result>>

InitTranslator ==
    InitWith({<< CfgUrl, CfgFrDe >>}, {<<DocSimple(<<"d">>)>>}, PoChoices,
             {NoCall})

NextTranslator ==
    \/ OnSetupEnv
    \/ OnBeforeBuildAll
    \/ \E c \in Contexts : SetCtx(c)
    \/ \E x \in Messages : Gettext(x)
    \/ \E n \in {1, 2} : Ngettext(<<"a">>, <<"b">>, n)

SpecTranslator == InitTranslator /\ [][NextTranslator]_vars

\* C3: every gettext / ngettext call made while the build context has
\* locale L is answered by the catalog loaded for L, never by a catalog
\* loaded for another locale nor by the empty catalog of no context.
C3_AnsweredForActiveLocale ==
    (answer.op # "none" /\ answer.ctx # <<>>)
        => /\ answer.exc = "none"
           /\ answer.by = gettext_translation(compiled, answer.ctx[1])

\* ------------------------------------------------------------------------
\* One field: translate_field called on a field and its content
\* ------------------------------------------------------------------------

MaxLen == 3

Alphabet == {"a", " ", NL, "-"}

\* the strings over Alphabet of length n at most
RECURSIVE Strings(_)
Strings(n) ==
    IF n = 0 THEN {<<>>}
    ELSE Strings(n - 1)
         \cup {Append(s, c) : s \in {t \in Strings(n - 1) : Len(t) = n - 1},
                              c \in Alphabet}

\* longer values: a run of blank lines between two paragraphs, an indented
\* first line, a repeated unit
Samples ==
    {<<"a", NL, NL, NL, "a">>, <<" ", "a", NL, "a">>, <<"a", " ", "a", NL, "a">>}

\* the value of a field as translate_contents reads it from a file in
\* which it was written as s (lines 429-431)
FieldValue(s) == DictGet(read_content(serialize(<< <<<<"v">>, s>> >>)), <<"v">>)

FieldValues == {FieldValue(s) : s \in Strings(MaxLen) \cup Samples}

\* a translatable and an untranslated scalar field with every value, and a
\* flow field with one sub-block b: its translatable t, its untranslated c
\* with every value, and a field x its model does not list
FieldCalls ==
    {[field |-> Datamodels[PAGE][k], content |-> v] :
        k \in {1, 2}, v \in FieldValues}
    \cup {[field |-> Datamodels[PAGE][3],
           content |-> FieldValue(FlowValue(
               << <<<<"b">>, << <<<<"t">>, <<"a">>>>, <<<<"c">>, v>>,
                               <<<<"x">>, <<"a">>>> >> >> >>, 0))] :
            v \in FieldValues}

\* I18NPlugin.translate_field(field, content, language, flowblocks) as
\* translate_contents calls it (lines 442-449): for a language other than
\* the content language, after the catalogs were compiled
TranslateField(language) ==
    /\ status = "ready"
    /\ lastop.op = "on_before_build_all"
    /\ language \in Range(translations_languages) \ {content_language}
    /\ \E r \in {translate_field(Self(compiled), call.field, call.content,
                                  language, FlowBlocks, 0)} :
          result' = [language |-> language, exc |-> r.exc, val |-> r.val]
    /\ UNCHANGED <<config, site, files, pofiles, compiled, pot, ctx, status,
                   memory, enabled, trans_parwise, content_language,
                   translations_languages, lastlang, translator, lastop,
                   answer, history, call>>

InitField ==
    InitWith({<< CfgUrl, CfgFrDe >>,
              << CfgUrl, CfgFrDe,
                 <<"translate_paragraphwise", <<"t", "r", "u", "e">>>> >>},
             {<<DocSimple(<<"d">>)>>}, PoChoices, FieldCalls)

NextField ==
    \/ OnSetupEnv
    \/ OnBeforeBuildAll
    \/ \E language \in {FR, DE} : TranslateField(language)

SpecField == InitField /\ [][NextField]_vars

\* the catalog the last translate_field call looked its units up in
ResultCatalog == gettext_translation(compiled, result.language)

\* C1: under an identity catalog translate_field gives back the field's
\* value, in line mode and in paragraph mode, for scalar fields (runs of
\* blank lines included) and for flow fields with sub-blocks.
C1_IdentityRoundTrip ==
    (result.language # <<>> /\ ResultCatalog.class = "NullTranslations")
        => /\ result.exc = "none"
           /\ result.val = call.content

\* the translation of a unit; an empty unit has none
Translate(tr, unit) == IF unit = <<>> THEN <<>> ELSE gettext(tr, unit)

\* a line with its unit replaced in place: the leading whitespace, the
\* heading or list prefix, the translation of the unit, the trailing
\* whitespace
SplicedLine(line, tr) ==
    LET lead == Span(line, 1, WS)
        core == strip(line, WS)
        prefix == HL_PATTERN(core)
    IN SubSeq(line, 1, lead) \o SubSeq(core, 1, prefix)
       \o Translate(tr, Drop(core, prefix))
       \o Drop(line, lead + Len(core))

\* a paragraph with its unit replaced in place: the leading line breaks,
\* the translation of the unit, the trailing line breaks
SplicedParagraph(paragraph, tr) ==
    LET lead == Span(paragraph, 1, CRLF)
        core == strip(paragraph, CRLF)
    IN SubSeq(paragraph, 1, lead) \o Translate(tr, core)
       \o Drop(paragraph, lead + Len(core))

\* C9: a translatable scalar field is rewritten line by line (paragraph by
\* paragraph) with only the stripped unit replaced by its translation: the
\* whitespace around it and the heading or list prefix stay as they are,
\* also when the unit's text occurs in the prefix or more than once.
C9_UnitReplacedInPlace ==
    (/\ result.language # <<>>
     /\ translate_option(call.field)
     /\ call.field.type # "flow")
        => /\ result.exc = "none"
           /\ IF trans_parwise
              THEN Len(split_paragraphs(call.content)) = 1
                     => result.val = SplicedParagraph(call.content, ResultCatalog)
              ELSE LET ls == split(call.content, NL)
                   IN result.val =
                        join([k \in 1..Len(ls) |->
                                SplicedLine(ls[k], ResultCatalog)], <<NL>>)

\* the sub-blocks of a flow value: each block's name and its fields with
\* their values
SubBlocks(text) ==
    LET data == process_flowblock_data(text)
    IN [k \in 1..Len(data.blocks) |->
          [name |-> data.blocks[k][1],
           content |-> content_dict(tokenize(data.blocks[k][2]))]]

\* whether the model of sub-block blockname has a field name that is
\* translated or is a flow field
IsRewritten(blockname, name) ==
    \E f \in Range(FlowBlocks[blockname].fields) :
        f.name = name /\ (translate_option(f) \/ f.type = "flow")

\* C10: a scalar field whose translate option is not truthy has the same
\* value after the rewrite, at top level and inside the sub-blocks of a
\* flow field, leading whitespace and blank lines included, and so has a
\* field the model does not list.
C10_UntranslatedFieldsUnchanged ==
    (result.language # <<>> /\ ~translate_option(call.field))
        => /\ result.exc = "none"
           /\ call.field.type # "flow" => result.val = call.content
           /\ call.field.type = "flow"
                => LET before == SubBlocks(call.content)
                       after == SubBlocks(result.val)
                   IN /\ Len(after) = Len(before)
                      /\ \A k \in 1..Len(before) :
                         \A j \in 1..Len(before[k].content) :
                            LET name == before[k].content[j][1]
                            IN ~IsRewritten(before[k].name, name)
                                 => /\ DictHas(after[k].content, name)
                                    /\ DictGet(after[k].content, name)
                                         = before[k].content[j][2]

\* ------------------------------------------------------------------------
\* One document: the analysis pass and the rewrite pass over the same file
\* ------------------------------------------------------------------------

MaxSection == 2

\* longer sections: a section that begins with blank lines, an indented
\* first line, two paragraphs
SectionSamples ==
    {<<NL, NL, "a">>, <<" ", "a", NL, "b">>, <<"a", NL, NL, "b">>}

SectionValues == Strings(MaxSection) \cup SectionSamples

\* a page whose translatable field t was written with the value v
DocTop(v) == Doc(<<"d">>, PAGE, << <<<<"t">>, v>> >>)

\* a page with one sub-block b whose translatable field t has the value v
DocSub(v) ==
    Doc(<<"d">>, PAGE,
        << <<<<"f">>, FlowValue(<< <<<<"b">>, << <<<<"t">>, v>> >> >> >>, 0)>> >>)

\* a page with a sub-block b holding a nested sub-block i whose
\* translatable field t has the value v
DocSubSub(v) ==
    Doc(<<"d">>, PAGE,
        << <<<<"f">>, FlowValue(<< <<<<"b">>,
                << <<<<"f">>, FlowValue(<< <<<<"i">>, << <<<<"t">>, v>> >> >> >>, 1)>> >> >> >>, 0)>> >>)

DocumentSites ==
    {<<DocTop(v)>> : v \in SectionValues}
    \cup {<<DocSub(v)>> : v \in SectionValues}
    \cup {<<DocSubSub(v)>> : v \in SectionValues}

\* line mode and paragraph mode
InitDocument ==
    InitWith({<< CfgUrl, CfgFrDe >>,
              << CfgUrl, CfgFrDe,
                 <<"translate_paragraphwise", <<"t", "r", "u", "e">>>> >>},
             DocumentSites, PoChoices, {NoCall})

\* the build of a one-document site: the rewrite pass, the analysis of the
\* page's alternatives, the template
NextDocument ==
    \/ OnSetupEnv
    \/ OnBeforeBuildAll
    \/ \E alt \in {PRIMARY_ALT, FR} : OnAfterBuild(1, alt)
    \/ OnAfterBuildAll

SpecDocument == InitDocument /\ [][NextDocument]_vars

\* C11: the memory never holds the empty string or a whitespace-only string
\* as a unit, in line mode and in paragraph mode, also for sections that are
\* empty, hold only blank lines, or begin or end with blank lines.
C11_OnlyNonEmptyUnits ==
    \A k \in 1..Len(memory) : strip(memory[k][1], WS) # <<>>

\* the strings __trans_linewise passes to translator.gettext (lines 460-466)
trans_linewise_lookups(content) ==
    LET ls == split(content, NL)
    IN SelectSeq([k \in 1..Len(ls) |-> hl_sub(strip(ls[k], WS))],
                 LAMBDA line_stripped : line_stripped # <<>>)

\* the strings __trans_parwise passes to translator.gettext (lines 475-477)
trans_parwise_lookups(content) ==
    LET ps == split_paragraphs(content)
    IN [k \in 1..Len(ps) |-> strip(ps[k], CRLF)]

RECURSIVE translate_field_lookups(_, _, _, _)
RECURSIVE translate_flowblock_lookups(_, _, _, _)

\* the strings translate_flowblock passes to translator.gettext for the
\* fields of one sub-block, content its dict(tokenize(blockvalue)) (lines
\* 353-372)
translate_fields_lookups(self, fields, content, flowblocks) ==
    concat([j \in 1..Len(fields) |->
              IF DictHas(content, fields[j].name)
              THEN translate_field_lookups(
                       self, fields[j],
                       flowblock_field_content(
                           SelectSeq(DictGet(content, fields[j].name),
                                     LAMBDA item : item # <<>>)),
                       flowblocks)
              ELSE <<>>])

\* the strings translate_flowblock passes to translator.gettext for the
\* sub-blocks from block i on, up to a sub-block without a model (line 352
\* raises there)
translate_flowblock_lookups(self, blocks, i, flowblocks) ==
    IF i > Len(blocks) \/ blocks[i][1] \notin DOMAIN flowblocks THEN <<>>
    ELSE translate_fields_lookups(self, flowblocks[blocks[i][1]].fields,
                                  dict(tokenize(blocks[i][2])), flowblocks)
         \o translate_flowblock_lookups(self, blocks, i + 1, flowblocks)

\* the strings translate_field passes to translator.gettext, in the order
\* of the calls (lines 377-400)
translate_field_lookups(self, field, field_content, flowblocks) ==
    IF translate_option(field)
    THEN IF self.trans_parwise THEN trans_parwise_lookups(field_content)
         ELSE trans_linewise_lookups(field_content)
    ELSE IF field.type = "flow"
    THEN translate_flowblock_lookups(
             self, process_flowblock_data(field_content).blocks, 1, flowblocks)
    ELSE <<>>

\* the strings translate_contents passes to translator.gettext for one
\* document and one language other than the content language (lines
\* 426-449)
translate_contents_lookups(self, doc, datamodels, flowblocks) ==
    LET content == read_content(doc.text)
        fields == datamodels[doc.model]
    IN concat([j \in 1..Len(fields) |->
                 IF DictHas(content, fields[j].name)
                 THEN translate_field_lookups(
                          self, fields[j], DictGet(content, fields[j].name),
                          flowblocks)
                 ELSE <<>>])

\* the units the memory holds with a location in the document of directory
\* dir
RegisteredFor(dir) ==
    {memory[k][1] : k \in {n \in 1..Len(memory) :
        \E j \in 1..Len(memory[n][2]) :
            IsAt(memory[n][2][j],
                 dir \o <<"/", "c", "o", "n", "t", "e", "n", "t", "s">> \o LR
                 \o <<":">>,
                 FindFrom(memory[n][2][j], <<" ">>, 1) + 1)}}

\* C12: once the rewrite pass has written a document's translations and the
\* analysis pass has gone over its primary page, every non-empty string the
\* rewrite passed to the catalog lookup, for top-level fields and for
\* fields of sub-blocks at any depth, is a unit the memory holds for that
\* document, in line mode and in paragraph mode.
C12_LookupsAreRegistered ==
    (/\ status = "ready"
     /\ files # <<>>
     /\ lastop.op = "on_after_build"
     /\ lastop.alt = PRIMARY_ALT)
        => \A unit \in Range(translate_contents_lookups(
                                 Self(compiled), site[lastop.doc],
                                 Datamodels, FlowBlocks)) :
              unit # <<>> => unit \in RegisteredFor(site[lastop.doc].dir)

====
